---- MODULE Spec2Model ----
(***************************************************************************)
(* Transaction posting of the inventory management system: the primary     *)
(* Express server (src/server/routes.ts) and the legacy InventoryManager   *)
(* (src/backend/InventoryManager.js), both over one relational store.      *)
(*                                                                         *)
(* Money is counted in cents, a discount percentage in hundredths of a     *)
(* percent (15.00 % = 1500), so that DECIMAL(10,2) and DECIMAL(5,2) are    *)
(* integers.  An optional value is a sequence: <<>> absent, <<v>> present. *)
(***************************************************************************)
EXTENDS Integers, Sequences, FiniteSets, TLC

\* ------------------------------------------------------------- bounds
MaxQty == 2
MaxStock == 2
MaxRequests == 2
MaxRules == 2

\* ------------------------------------------------------------- the store's fixed content
ProductIds == {"P1", "P2"}
UnknownProduct == "PX"
TransactionIds == {"T0", "T1"}
ConcurrentTransactionIds == {"T1", "T2"}
CustomerCategory == [C1 |-> "vip"]
CustomerIds == DOMAIN CustomerCategory
UnknownCustomer == "CX"
Slots == {1, 2}
Clients == {1, 2}

\* products.name and products.low_stock_threshold of the two products
ProductName == [P1 |-> "Wireless Bluetooth Headphones", P2 |-> "Ergonomic Office Chair"]
LowStockThreshold == [P1 |-> 1, P2 |-> 0]

\* prices in cents; 9.95 at the seeded 15% is not a whole number of cents
InitialPrice == [P1 |-> 995, P2 |-> 2500]
Prices == {995, 2500}

\* the seeded discount_rules rows (percent in hundredths of a percent), the quantity
\* thresholds 10 and 20 brought into the range of the quantities
discountRules ==
  << [type |-> "quantity", threshold |-> MaxQty, percent |-> 500, categoryTarget |-> "", isActive |-> TRUE],
     [type |-> "quantity", threshold |-> 2 * MaxQty, percent |-> 1000, categoryTarget |-> "", isActive |-> TRUE],
     [type |-> "customer_category", threshold |-> 1, percent |-> 1000, categoryTarget |-> "premium", isActive |-> TRUE],
     [type |-> "customer_category", threshold |-> 1, percent |-> 1500, categoryTarget |-> "vip", isActive |-> TRUE] >>

\* ------------------------------------------------------------- state
VARIABLES
  stock,     \* products.stock, committed
  price,     \* products.price, committed (cents)
  rows,      \* the transactions table, committed: a set of rows
  nextId,    \* the serial of transactions.id
  req,       \* per request slot: the handler's position and locals
  pre,       \* the store as it was when the latest request arrived
  last,      \* the request that ended just before the latest one arrived
  nreq,      \* requests accepted so far
  faulty,    \* whether statements of this run may fail in the store
  conn,      \* per client of the legacy server's pg Pool: its open transaction
  lastClient,\* the client the legacy pool released last (the top of its idle list)
  rules,     \* the discount_rules table, in the order a SELECT returns its rows
  preview    \* the latest answer of GET /api/discount-preview

vars == <<stock, price, rows, nextId, req, pre, last, nreq, faulty, conn, lastClient,
          rules, preview>>

Max(a, b) == IF a >= b THEN a ELSE b

\* x / d rounded to the nearest integer, ties away from zero (x >= 0, d > 0):
\* what NUMERIC(10,2) does to the decimal text it is given
RoundDiv(x, d) == (2 * x + d) \div (2 * d)

\* ------------------------------------------------------------- pure helpers of routes.ts
RECURSIVE BestDiscount(_, _, _, _)
\* an evaluation in which the matching rules add up
BestDiscountAdded(table, i, quantity, customerCategory) ==
  IF i > Len(table) THEN 0
  ELSE LET rule == table[i]
           rest == BestDiscount(table, i + 1, quantity, customerCategory)
       IN IF ~rule.isActive THEN rest
          ELSE IF rule.type = "quantity" /\ quantity >= rule.threshold
                 THEN rest + rule.percent
          ELSE IF rule.type = "customer_category" /\ rule.categoryTarget = customerCategory
                 THEN rest + rule.percent
          ELSE rest

\* calculateDiscount's loop over the rows: the largest percent of the matching rules
BestDiscount(table, i, quantity, customerCategory) ==
  IF i > Len(table) THEN 0
  ELSE LET rule == table[i]
           rest == BestDiscount(table, i + 1, quantity, customerCategory)
       IN IF ~rule.isActive THEN rest
          ELSE IF rule.type = "quantity" /\ quantity >= rule.threshold
                 THEN Max(rest, rule.percent)
          ELSE IF rule.type = "customer_category" /\ rule.categoryTarget = customerCategory
                 THEN Max(rest, rule.percent)
          ELSE rest

\* calculateDiscount: the rate as a fraction, here in 1/10000
calculateDiscount(quantity, customerCategory) ==
  BestDiscount(rules, 1, quantity, customerCategory)

\* a discount that a sale gets from the quantity rules even without a customer
PostDiscountRateAnySale(type, customerId, quantity) ==
  IF type = "sale"
    THEN calculateDiscount(quantity,
           IF customerId # <<>> /\ customerId[1] \in CustomerIds
             THEN CustomerCategory[customerId[1]] ELSE "regular")
    ELSE 0

\* POST: the discount applies to a sale with a customerId whose customer exists
PostDiscountRate(type, customerId, quantity) ==
  IF type = "sale" /\ customerId # <<>> /\ customerId[1] \in CustomerIds
    THEN calculateDiscount(quantity, CustomerCategory[customerId[1]])
    ELSE 0

\* a total that leaves the discount out
PostTotalAmountUndiscounted(unitPrice, quantity, rate) ==
  unitPrice * quantity

\* POST: totalAmount = baseAmount - baseAmount * discountRate, stored as NUMERIC(10,2)
PostTotalAmount(unitPrice, quantity, rate) ==
  LET baseAmount == unitPrice * quantity
  IN IF baseAmount >= 0 THEN RoundDiv(baseAmount * (10000 - rate), 10000)
     ELSE 0 - RoundDiv((0 - baseAmount) * (10000 - rate), 10000)

\* a stock check that lets a sale of one more than the stock through
PostInsufficientStockLax(type, productStock, quantity) ==
  type = "sale" /\ productStock + 1 < quantity

\* POST: the stock check applies to sales only
PostInsufficientStock(type, productStock, quantity) ==
  type = "sale" /\ productStock < quantity

\* a stock change that adds whatever the type
PostStockChangeUntyped(type, quantity) == quantity

\* POST: stockChange
PostStockChange(type, quantity) ==
  IF type = "purchase" THEN quantity ELSE 0 - quantity

\* PUT and DELETE: the reversal of the stored transaction's stock effect
OldStockChange(type, quantity) ==
  IF type = "purchase" THEN 0 - quantity ELSE quantity

\* PUT: updateData.quantity || currentTransaction.quantity
PutNewQuantity(bodyQuantity, curQuantity) ==
  IF bodyQuantity # <<>> /\ bodyQuantity[1] # 0 THEN bodyQuantity[1] ELSE curQuantity

\* PUT: updateData.type || currentTransaction.type
PutNewType(bodyType, curType) ==
  IF bodyType # <<>> THEN bodyType[1] ELSE curType

\* PUT: newStockChange
PutNewStockChange(newType, newQuantity) ==
  IF newType = "purchase" THEN newQuantity ELSE 0 - newQuantity

\* a check that also rejects an update that empties the stock
PutInsufficientStockStrict(finalStock) == finalStock <= 0

\* PUT: finalStock < 0 rejects
PutInsufficientStock(finalStock) == finalStock < 0

\* a total that keeps the discount of the stored row
PutTotalAmountDiscounted(unitPrice, newQuantity) == (unitPrice * newQuantity * 9) \div 10

\* PUT: totalAmount = unitPrice * newQuantity
PutTotalAmount(unitPrice, newQuantity) == unitPrice * newQuantity

\* a delete that checks nothing
DeleteInsufficientStockNever(newStock) == FALSE

\* DELETE: newStock < 0 rejects
DeleteInsufficientStock(newStock) == newStock < 0

\* insertTransactionSchema.parse: transactionId, productId, quantity (an integer)
\* and type (a string) are required; nothing else is checked
PostParses(body) == body.quantity # <<>> /\ body.type # <<>>

\* ------------------------------------------------------------- the store
RowOf(id) == {r \in rows : r.id = id}
RowWithTid(tid) == {r \in rows : r.transactionId = tid}

\* the foreign key and unique constraints an INSERT INTO transactions meets
InsertViolates(table, tid, customerId) ==
  \/ \E r \in table : r.transactionId = tid
  \/ customerId # <<>> /\ customerId[1] \notin CustomerIds

Store == [stock |-> stock, rows |-> rows]

\* a statement's outcome in the store: TRUE is a failure (connection lost, timeout,
\* value out of range) that the driver throws
Failures == IF faulty THEN BOOLEAN ELSE {FALSE}

\* a client with no transaction open
IdleConn == [state |-> "idle", wstock |-> [p \in ProductIds |-> <<>>], wrows |-> {}]

\* READ COMMITTED: a client sees the committed store and its own uncommitted writes
ViewStock(c, p) == IF conn[c].wstock[p] # <<>> THEN conn[c].wstock[p][1] ELSE stock[p]
ViewRows(c) == rows \cup conn[c].wrows

\* a write waits while another client's open transaction holds the row or the key
\* (c = 0: a client of the primary server, which opens no transaction)
LockedStock(c, p) == \E d \in Clients \ {c} : conn[d].wstock[p] # <<>>
LockedTid(c, tid) == \E d \in Clients \ {c} : \E r \in conn[d].wrows : r.transactionId = tid

\* pool.query releases the client of a failed statement with the error, and the pool
\* closes such a client: the transaction it had open is gone
Discard(c) == [conn EXCEPT ![c] = IdleConn]

\* ------------------------------------------------------------- requests
NoRow == [id |-> 0, transactionId |-> "", productId |-> "", quantity |-> 0, type |-> "",
          unitPrice |-> 0, discountRate |-> 0, totalAmount |-> 0]

IdleReq ==
  [impl |-> "", op |-> "", pc |-> "idle",
   transactionId |-> "", productId |-> "", quantity |-> <<>>, type |-> <<>>,
   customerId |-> <<>>, discountRate |-> <<>>, id |-> 0,
   productStock |-> 0, unitPrice |-> 0, cur |-> NoRow, newRow |-> NoRow,
   newStock |-> 0, status |-> 0, code |-> "",
   wroteRow |-> FALSE, wroteStock |-> FALSE, storeErr |-> FALSE,
   emitted |-> <<>>, handlerThrew |-> FALSE]

NoLast == [op |-> "", id |-> 0, productId |-> "", type |-> "", quantity |-> 0,
           stockBefore |-> [p \in ProductIds |-> 0]]

\* what the next request's claims need of a request that has ended: a create that
\* the primary server accepted or a delete that it carried out, and the stock before it
Summary(r) ==
  IF r.pc = "done" /\ r.impl = "primary" /\ r.op = "post" /\ r.status = 201
    THEN [op |-> "post", id |-> r.newRow.id, productId |-> r.productId,
          type |-> r.type[1], quantity |-> r.quantity[1], stockBefore |-> pre.stock]
  ELSE IF r.pc = "done" /\ r.impl = "primary" /\ r.op = "delete" /\ r.status = 200
    THEN [op |-> "delete", id |-> r.id, productId |-> r.productId,
          type |-> r.cur.type, quantity |-> r.cur.quantity, stockBefore |-> pre.stock]
    ELSE NoLast

Free(s) == req[s].pc \in {"idle", "done"}

\* a request arrives at slot s.  Sequential: no other request is in flight.
Arrive(s, sequential, budget) ==
  /\ Free(s)
  /\ UNCHANGED <<faulty, rules, preview>>
  /\ nreq < budget
  /\ nreq' = nreq + 1
  /\ IF sequential
       THEN /\ \A t \in Slots : Free(t)
            /\ pre' = Store
            /\ last' = Summary(req[s])
       ELSE UNCHANGED <<pre, last>>

Done(r, status, code) == [r EXCEPT !.pc = "done", !.status = status, !.code = code]

\* ------------------------------------------------------------- POST /api/transactions
PostBody(tid, pid, q, t, c) ==
  [transactionId |-> tid, productId |-> pid, quantity |-> q, type |-> t, customerId |-> c]

WellFormedPostBodies ==
  {PostBody(tid, "P1", <<q>>, <<t>>, c) :
     tid \in TransactionIds, q \in 1..MaxQty, t \in {"purchase", "sale"},
     c \in {<<>>, <<"C1">>}}
  \cup {PostBody(tid, "P1", <<1>>, <<"sale">>, <<UnknownCustomer>>) : tid \in TransactionIds}
  \cup {PostBody(tid, "P2", <<q>>, <<t>>, <<>>) :
     tid \in TransactionIds, q \in 1..MaxQty, t \in {"purchase", "sale"}}

MalformedPostBodies ==
  {PostBody(tid, "P1", q, <<t>>, <<>>) :
     tid \in TransactionIds, q \in {<<>>, <<0 - 1>>, <<0>>}, t \in {"purchase", "sale"}}
  \cup {PostBody(tid, "P1", <<1>>, t, <<>>) : tid \in TransactionIds, t \in {<<>>, <<"refund">>}}
  \cup {PostBody(tid, UnknownProduct, <<MaxQty>>, <<t>>, <<>>) :
     tid \in TransactionIds, t \in {"purchase", "sale"}}

PostBodies == WellFormedPostBodies \cup MalformedPostBodies

\* lines 332-372: parse, product lookup, discount, amounts, stock check
PostBegin(s, body, sequential, budget) ==
  /\ Arrive(s, sequential, budget)
  /\ LET r0 == [IdleReq EXCEPT !.impl = "primary", !.op = "post",
                  !.transactionId = body.transactionId, !.productId = body.productId,
                  !.quantity = body.quantity, !.type = body.type,
                  !.customerId = body.customerId]
     IN IF ~PostParses(body)
          THEN req' = [req EXCEPT ![s] = Done(r0, 400, "TRANSACTION_CREATION_ERROR")]
        ELSE IF body.productId \notin ProductIds
          THEN req' = [req EXCEPT ![s] = Done(r0, 404, "PRODUCT_NOT_FOUND")]
        ELSE LET quantity == body.quantity[1]
                 type == body.type[1]
                 unitPrice == price[body.productId]
                 rate == PostDiscountRate(type, body.customerId, quantity)
                 r1 == [r0 EXCEPT !.productStock = stock[body.productId],
                                  !.unitPrice = unitPrice,
                                  !.newRow = [NoRow EXCEPT
                                     !.transactionId = body.transactionId,
                                     !.productId = body.productId,
                                     !.quantity = quantity, !.type = type,
                                     !.unitPrice = unitPrice,
                                     !.discountRate = rate,
                                     !.totalAmount = PostTotalAmount(unitPrice, quantity, rate)]]
             IN IF PostInsufficientStock(type, stock[body.productId], quantity)
                  THEN req' = [req EXCEPT ![s] = Done(r1, 400, "INSUFFICIENT_STOCK")]
                  ELSE req' = [req EXCEPT ![s] = [r1 EXCEPT !.pc = "insert"]]
  /\ UNCHANGED <<stock, price, rows, nextId, conn, lastClient>>

\* lines 374-380 (and the catch, 394-402): the INSERT; a constraint violation or a
\* store failure throws
PostInsert(s) ==
  /\ req[s].impl = "primary" /\ req[s].op = "post" /\ req[s].pc = "insert"
  /\ ~LockedTid(0, req[s].transactionId)
  /\ \E fail \in Failures :
       IF fail \/ InsertViolates(rows, req[s].transactionId, req[s].customerId)
         THEN /\ req' = [req EXCEPT ![s] = [Done(@, 400, "TRANSACTION_CREATION_ERROR")
                                              EXCEPT !.storeErr = fail]]
              /\ UNCHANGED <<rows, nextId>>
         ELSE LET row == [req[s].newRow EXCEPT !.id = nextId]
              IN /\ rows' = rows \cup {row}
                 /\ nextId' = nextId + 1
                 /\ req' = [req EXCEPT ![s] = [@ EXCEPT !.pc = "update", !.newRow = row,
                                                        !.wroteRow = TRUE]]
  /\ UNCHANGED <<stock, price, pre, last, nreq, faulty, rules, preview, conn, lastClient>>

\* lines 382-393: the stock write and the 201
PostUpdate(s) ==
  /\ req[s].impl = "primary" /\ req[s].op = "post" /\ req[s].pc = "update"
  /\ ~LockedStock(0, req[s].productId)
  /\ LET newStock == req[s].productStock + PostStockChange(req[s].type[1], req[s].quantity[1])
     IN \E fail \in Failures :
          IF fail
            THEN /\ req' = [req EXCEPT ![s] = [Done(@, 400, "TRANSACTION_CREATION_ERROR")
                                                 EXCEPT !.storeErr = TRUE]]
                 /\ UNCHANGED stock
            ELSE /\ stock' = [stock EXCEPT ![req[s].productId] = newStock]
                 /\ req' = [req EXCEPT ![s] = [Done(@, 201, "") EXCEPT !.newStock = newStock,
                                                                       !.wroteStock = TRUE]]
  /\ UNCHANGED <<price, rows, nextId, pre, last, nreq, faulty, rules, preview, conn, lastClient>>

\* ------------------------------------------------------------- PUT /api/transactions/:id
PutBody(q, t, d) == [quantity |-> q, type |-> t, discountRate |-> d]

PutBodies ==
  {PutBody(q, <<>>, <<>>) : q \in {<<>>, <<0>>} \cup {<<n>> : n \in 1..MaxQty}}
  \cup {PutBody(q, <<t>>, <<>>) : q \in {<<>>, <<MaxQty>>}, t \in {"purchase", "sale"}}
  \cup {PutBody(<<0 - 1>>, <<>>, <<>>), PutBody(<<>>, <<"refund">>, <<>>),
        PutBody(<<>>, <<>>, <<500>>), PutBody(<<1>>, <<>>, <<500>>)}

\* the ids a request may name: the seeded row's and those the serial can have issued
TransactionRowIds == 1..(MaxRequests + 1)

\* the SET clause of the PUT: the request body as it came, then unitPrice and totalAmount
PutSet(row, body, unitPrice, totalAmount) ==
  [row EXCEPT !.quantity = IF body.quantity # <<>> THEN body.quantity[1] ELSE @,
              !.type = IF body.type # <<>> THEN body.type[1] ELSE @,
              !.discountRate = IF body.discountRate # <<>> THEN body.discountRate[1] ELSE @,
              !.unitPrice = unitPrice,
              !.totalAmount = totalAmount]

\* lines 407-456: load the transaction and its product, reverse, re-apply, check
PutBegin(s, id, body, sequential, budget) ==
  /\ Arrive(s, sequential, budget)
  /\ LET r0 == [IdleReq EXCEPT !.impl = "primary", !.op = "put", !.id = id,
                  !.quantity = body.quantity, !.type = body.type,
                  !.discountRate = body.discountRate]
     IN IF RowOf(id) = {}
          THEN req' = [req EXCEPT ![s] = Done(r0, 404, "TRANSACTION_NOT_FOUND")]
        ELSE LET cur == CHOOSE r \in rows : r.id = id
             IN IF cur.productId \notin ProductIds
                  THEN req' = [req EXCEPT ![s] = Done([r0 EXCEPT !.cur = cur], 404, "PRODUCT_NOT_FOUND")]
                ELSE LET reversedStock == stock[cur.productId] + OldStockChange(cur.type, cur.quantity)
                         newQuantity == PutNewQuantity(body.quantity, cur.quantity)
                         newType == PutNewType(body.type, cur.type)
                         finalStock == reversedStock + PutNewStockChange(newType, newQuantity)
                         unitPrice == price[cur.productId]
                         r1 == [r0 EXCEPT !.cur = cur, !.productId = cur.productId,
                                          !.productStock = stock[cur.productId],
                                          !.unitPrice = unitPrice,
                                          !.newStock = finalStock,
                                          !.newRow = PutSet(cur, body, unitPrice,
                                                            PutTotalAmount(unitPrice, newQuantity))]
                     IN IF PutInsufficientStock(finalStock)
                          THEN req' = [req EXCEPT ![s] = Done(r1, 400, "INSUFFICIENT_STOCK")]
                          ELSE req' = [req EXCEPT ![s] = [r1 EXCEPT !.pc = "updateRow"]]
  /\ UNCHANGED <<stock, price, rows, nextId, conn, lastClient>>

\* lines 458-465: UPDATE transactions SET ... WHERE id; no row matched is no error
PutUpdateRow(s) ==
  /\ req[s].impl = "primary" /\ req[s].op = "put" /\ req[s].pc = "updateRow"
  /\ \E fail \in Failures :
       IF fail
         THEN /\ req' = [req EXCEPT ![s] = [Done(@, 400, "TRANSACTION_UPDATE_ERROR")
                                              EXCEPT !.storeErr = TRUE]]
              /\ UNCHANGED rows
         ELSE /\ rows' = {IF r.id = req[s].id
                            THEN PutSet(r, [quantity |-> req[s].quantity, type |-> req[s].type,
                                            discountRate |-> req[s].discountRate],
                                        req[s].newRow.unitPrice, req[s].newRow.totalAmount)
                            ELSE r : r \in rows}
              /\ req' = [req EXCEPT ![s] = [@ EXCEPT !.pc = "updateStock",
                                                     !.wroteRow = RowOf(req[s].id) # {}]]
  /\ UNCHANGED <<stock, price, nextId, pre, last, nreq, faulty, rules, preview, conn, lastClient>>

\* lines 467-475: the stock write and the 200
PutUpdateStock(s) ==
  /\ req[s].impl = "primary" /\ req[s].op = "put" /\ req[s].pc = "updateStock"
  /\ ~LockedStock(0, req[s].productId)
  /\ \E fail \in Failures :
       IF fail
         THEN /\ req' = [req EXCEPT ![s] = [Done(@, 400, "TRANSACTION_UPDATE_ERROR")
                                              EXCEPT !.storeErr = TRUE]]
              /\ UNCHANGED stock
         ELSE /\ stock' = [stock EXCEPT ![req[s].productId] = req[s].newStock]
              /\ req' = [req EXCEPT ![s] = [Done(@, 200, "") EXCEPT !.wroteStock = TRUE]]
  /\ UNCHANGED <<price, rows, nextId, pre, last, nreq, faulty, rules, preview, conn, lastClient>>

\* ------------------------------------------------------------- DELETE /api/transactions/:id
\* a delete that answers success for a transaction that is not stored
DeleteBeginMissingAsDone(s, id, sequential, budget) ==
  /\ Arrive(s, sequential, budget)
  /\ LET r0 == [IdleReq EXCEPT !.impl = "primary", !.op = "delete", !.id = id]
     IN IF RowOf(id) = {}
          THEN req' = [req EXCEPT ![s] = Done(r0, 200, "")]
        ELSE LET cur == CHOOSE r \in rows : r.id = id
             IN IF cur.productId \notin ProductIds
                  THEN req' = [req EXCEPT ![s] = Done([r0 EXCEPT !.cur = cur], 404, "PRODUCT_NOT_FOUND")]
                ELSE LET newStock == stock[cur.productId] + OldStockChange(cur.type, cur.quantity)
                         r1 == [r0 EXCEPT !.cur = cur, !.productId = cur.productId,
                                          !.productStock = stock[cur.productId],
                                          !.newStock = newStock]
                     IN IF DeleteInsufficientStock(newStock)
                          THEN req' = [req EXCEPT ![s] = Done(r1, 400, "INSUFFICIENT_STOCK")]
                          ELSE req' = [req EXCEPT ![s] = [r1 EXCEPT !.pc = "deleteRow"]]
  /\ UNCHANGED <<stock, price, rows, nextId, conn, lastClient>>

\* lines 489-527: load the transaction and its product, reverse, check
DeleteBegin(s, id, sequential, budget) ==
  /\ Arrive(s, sequential, budget)
  /\ LET r0 == [IdleReq EXCEPT !.impl = "primary", !.op = "delete", !.id = id]
     IN IF RowOf(id) = {}
          THEN req' = [req EXCEPT ![s] = Done(r0, 404, "TRANSACTION_NOT_FOUND")]
        ELSE LET cur == CHOOSE r \in rows : r.id = id
             IN IF cur.productId \notin ProductIds
                  THEN req' = [req EXCEPT ![s] = Done([r0 EXCEPT !.cur = cur], 404, "PRODUCT_NOT_FOUND")]
                ELSE LET newStock == stock[cur.productId] + OldStockChange(cur.type, cur.quantity)
                         r1 == [r0 EXCEPT !.cur = cur, !.productId = cur.productId,
                                          !.productStock = stock[cur.productId],
                                          !.newStock = newStock]
                     IN IF DeleteInsufficientStock(newStock)
                          THEN req' = [req EXCEPT ![s] = Done(r1, 400, "INSUFFICIENT_STOCK")]
                          ELSE req' = [req EXCEPT ![s] = [r1 EXCEPT !.pc = "deleteRow"]]
  /\ UNCHANGED <<stock, price, rows, nextId, conn, lastClient>>

\* lines 529-530: DELETE FROM transactions WHERE id
DeleteRow(s) ==
  /\ req[s].impl = "primary" /\ req[s].op = "delete" /\ req[s].pc = "deleteRow"
  /\ \E fail \in Failures :
       IF fail
         THEN /\ req' = [req EXCEPT ![s] = [Done(@, 400, "TRANSACTION_DELETE_ERROR")
                                              EXCEPT !.storeErr = TRUE]]
              /\ UNCHANGED rows
         ELSE /\ rows' = rows \ RowOf(req[s].id)
              /\ req' = [req EXCEPT ![s] = [@ EXCEPT !.pc = "updateStock",
                                                     !.wroteRow = RowOf(req[s].id) # {}]]
  /\ UNCHANGED <<stock, price, nextId, pre, last, nreq, faulty, rules, preview, conn, lastClient>>

\* lines 532-540: the stock write and the 200
DeleteUpdateStock(s) ==
  /\ req[s].impl = "primary" /\ req[s].op = "delete" /\ req[s].pc = "updateStock"
  /\ ~LockedStock(0, req[s].productId)
  /\ \E fail \in Failures :
       IF fail
         THEN /\ req' = [req EXCEPT ![s] = [Done(@, 400, "TRANSACTION_DELETE_ERROR")
                                              EXCEPT !.storeErr = TRUE]]
              /\ UNCHANGED stock
         ELSE /\ stock' = [stock EXCEPT ![req[s].productId] = req[s].newStock]
              /\ req' = [req EXCEPT ![s] = [Done(@, 200, "") EXCEPT !.wroteStock = TRUE]]
  /\ UNCHANGED <<price, rows, nextId, pre, last, nreq, faulty, rules, preview, conn, lastClient>>

\* ------------------------------------------------------------- PUT /api/products/:id
\* a price change that also reprices the stored transactions of the product
ProductPriceUpdateRepricing(s, productId, newPrice, sequential, budget) ==
  /\ Arrive(s, sequential, budget)
  /\ newPrice # price[productId]
  /\ price' = [price EXCEPT ![productId] = newPrice]
  /\ rows' = {IF x.productId = productId
                THEN [x EXCEPT !.unitPrice = newPrice, !.totalAmount = newPrice * x.quantity]
                ELSE x : x \in rows}
  /\ req' = [req EXCEPT ![s] = Done([IdleReq EXCEPT !.impl = "primary", !.op = "putProduct",
                                                    !.productId = productId,
                                                    !.unitPrice = newPrice], 200, "")]
  /\ UNCHANGED <<stock, nextId, conn, lastClient>>

\* lines 93-184 with a body that carries a price: the product row alone is written
ProductPriceUpdate(s, productId, newPrice, sequential, budget) ==
  /\ Arrive(s, sequential, budget)
  /\ newPrice # price[productId]
  /\ price' = [price EXCEPT ![productId] = newPrice]
  /\ req' = [req EXCEPT ![s] = Done([IdleReq EXCEPT !.impl = "primary", !.op = "putProduct",
                                                    !.productId = productId,
                                                    !.unitPrice = newPrice], 200, "")]
  /\ UNCHANGED <<stock, rows, nextId, conn, lastClient>>

\* ------------------------------------------------------------- legacy InventoryManager.createTransaction
\* Every this.db.query is pool.query: the pool hands the statement to an idle client
\* and takes the client back when the statement has run.  With no other legacy request
\* in flight that is the client released last (the idle list is a stack); with
\* statements of other requests outstanding the pool promises no particular client: a
\* released client goes to the longest waiter once all max clients are busy.
PickClient(s, c) ==
  IF \A t \in Slots \ {s} : Free(t) \/ req[t].impl # "legacy"
    THEN c = lastClient ELSE c \in Clients

LegacyBody(tid, pid, q, t, c) ==
  [transactionId |-> tid, productId |-> pid, quantity |-> q, type |-> t, customerId |-> c]

LegacyBodies ==
  {LegacyBody(tid, "P1", <<q>>, <<t>>, <<>>) :
     tid \in TransactionIds, q \in 1..MaxQty, t \in {"purchase", "sale"}}
  \cup {LegacyBody(tid, "P2", <<1>>, <<t>>, <<>>) :
     tid \in TransactionIds, t \in {"purchase", "sale"}}
  \cup {LegacyBody("T1", "P1", q, <<"purchase">>, <<>>) : q \in {<<>>, <<0>>, <<0 - 1>>}}
  \cup {LegacyBody("T1", "P1", <<1>>, t, <<>>) : t \in {<<>>, <<"refund">>}}
  \cup {LegacyBody(tid, UnknownProduct, <<MaxQty>>, <<"sale">>, <<>>) : tid \in TransactionIds}
  \cup {LegacyBody("T1", "P1", <<1>>, <<"sale">>, <<UnknownCustomer>>)}

\* lines 152-162: !quantity (absent, NaN or 0), type outside the enum, quantity <= 0
LegacyValid(body) ==
  /\ body.quantity # <<>> /\ body.quantity[1] # 0
  /\ body.type # <<>> /\ body.type[1] \in {"purchase", "sale"}
  /\ body.quantity[1] > 0

\* updateStock, lines 102-109: the new stock, and the rejection of a sale below zero
LegacyNewStock(type, productStock, quantity) ==
  IF type = "purchase" THEN productStock + quantity ELSE productStock - quantity

LegacyInsufficientStock(type, newStock) == type # "purchase" /\ newStock < 0

\* a low-stock test that leaves out the stock equal to the threshold
LegacyLowStockBelow(newStock, threshold) == newStock < threshold

\* updateStock, line 118: the condition of the lowStock notification
LegacyLowStock(newStock, threshold) == newStock <= threshold

\* updateStock, lines 119-125: the payload of the lowStock event (the timestamp, the
\* time of the emit, is left out)
LowStockEvent(productId, newStock) ==
  [productId |-> productId, name |-> ProductName[productId],
   currentStock |-> newStock, threshold |-> LowStockThreshold[productId]]

\* updateStock, lines 117-126: what the call has emitted once the UPDATE has run
LegacyEmit(emitted, productId, newStock) ==
  IF LegacyLowStock(newStock, LowStockThreshold[productId])
    THEN Append(emitted, LowStockEvent(productId, newStock))
    ELSE emitted

\* an error inside the inner try: remembered until the ROLLBACK has been issued
Failing(r, status, code) == [r EXCEPT !.pc = "rollback", !.status = status, !.code = code]

\* a create that reports an unknown product as a validation error
LegacyBeginUnknownAsInvalid(s, body, sequential, budget) ==
  /\ Arrive(s, sequential, budget)
  /\ LET r0 == [IdleReq EXCEPT !.impl = "legacy", !.op = "create",
                  !.transactionId = body.transactionId, !.productId = body.productId,
                  !.quantity = body.quantity, !.type = body.type,
                  !.customerId = body.customerId]
     IN IF ~LegacyValid(body)
          THEN /\ req' = [req EXCEPT ![s] = Done(r0, 400, "VALIDATION_ERROR")]
               /\ UNCHANGED lastClient
          ELSE \E c \in Clients :
                 /\ PickClient(s, c)
                 /\ lastClient' = c
                 /\ IF \E r \in ViewRows(c) : r.transactionId = body.transactionId
                      THEN req' = [req EXCEPT ![s] = Done(r0, 409, "CONFLICT")]
                    ELSE IF body.productId \notin ProductIds
                      THEN req' = [req EXCEPT ![s] = Done(r0, 400, "VALIDATION_ERROR")]
                    ELSE LET unitPrice == price[body.productId]
                         IN req' = [req EXCEPT ![s] =
                              [r0 EXCEPT !.pc = "begin", !.unitPrice = unitPrice,
                                 !.newRow = [NoRow EXCEPT
                                    !.transactionId = body.transactionId,
                                    !.productId = body.productId,
                                    !.quantity = body.quantity[1], !.type = body.type[1],
                                    !.unitPrice = unitPrice,
                                    !.totalAmount = unitPrice * body.quantity[1]]]]
  /\ UNCHANGED <<stock, price, rows, nextId, conn>>

\* lines 150-187: validation, the duplicate check and the product lookup
LegacyBegin(s, body, sequential, budget) ==
  /\ Arrive(s, sequential, budget)
  /\ LET r0 == [IdleReq EXCEPT !.impl = "legacy", !.op = "create",
                  !.transactionId = body.transactionId, !.productId = body.productId,
                  !.quantity = body.quantity, !.type = body.type,
                  !.customerId = body.customerId]
     IN IF ~LegacyValid(body)
          THEN /\ req' = [req EXCEPT ![s] = Done(r0, 400, "VALIDATION_ERROR")]
               /\ UNCHANGED lastClient
          ELSE \E c \in Clients :
                 /\ PickClient(s, c)
                 /\ lastClient' = c
                 /\ IF \E r \in ViewRows(c) : r.transactionId = body.transactionId
                      THEN req' = [req EXCEPT ![s] = Done(r0, 409, "CONFLICT")]
                    ELSE IF body.productId \notin ProductIds
                      THEN req' = [req EXCEPT ![s] = Done(r0, 404, "NOT_FOUND")]
                    ELSE LET unitPrice == price[body.productId]
                         IN req' = [req EXCEPT ![s] =
                              [r0 EXCEPT !.pc = "begin", !.unitPrice = unitPrice,
                                 !.newRow = [NoRow EXCEPT
                                    !.transactionId = body.transactionId,
                                    !.productId = body.productId,
                                    !.quantity = body.quantity[1], !.type = body.type[1],
                                    !.unitPrice = unitPrice,
                                    !.totalAmount = unitPrice * body.quantity[1]]]]
  /\ UNCHANGED <<stock, price, rows, nextId, conn>>

\* line 190: BEGIN, issued before the inner try
LegacyTxBegin(s) ==
  /\ req[s].impl = "legacy" /\ req[s].pc = "begin"
  /\ \E c \in Clients :
       /\ PickClient(s, c)
       /\ lastClient' = c
       /\ conn' = [conn EXCEPT ![c].state = "intxn"]
       /\ req' = [req EXCEPT ![s].pc = "insert"]
  /\ UNCHANGED <<stock, price, rows, nextId, pre, last, nreq, faulty, rules, preview>>

\* lines 193-198: INSERT INTO transactions
LegacyInsert(s) ==
  /\ req[s].impl = "legacy" /\ req[s].pc = "insert"
  /\ \E c \in Clients :
       /\ PickClient(s, c)
       /\ lastClient' = c
       /\ ~LockedTid(c, req[s].transactionId)
       /\ IF InsertViolates(ViewRows(c), req[s].transactionId, req[s].customerId)
            THEN /\ conn' = Discard(c)
                 /\ req' = [req EXCEPT ![s] = [Failing(@, 500, "INTERNAL_ERROR")
                                                 EXCEPT !.storeErr = TRUE]]
                 /\ UNCHANGED <<rows, nextId>>
            ELSE LET row == [req[s].newRow EXCEPT !.id = nextId]
                 IN /\ IF conn[c].state = "intxn"
                         THEN /\ conn' = [conn EXCEPT ![c].wrows = @ \cup {row}]
                              /\ UNCHANGED rows
                         ELSE /\ rows' = rows \cup {row}
                              /\ UNCHANGED conn
                    /\ nextId' = nextId + 1
                    /\ req' = [req EXCEPT ![s] = [@ EXCEPT !.pc = "stockSelect", !.newRow = row]]
  /\ UNCHANGED <<stock, price, pre, last, nreq, faulty, rules, preview>>

\* updateStock, lines 89-109: SELECT the product, compute, reject a sale below zero
LegacyStockSelect(s) ==
  /\ req[s].impl = "legacy" /\ req[s].pc = "stockSelect"
  /\ \E c \in Clients :
       /\ PickClient(s, c)
       /\ lastClient' = c
       /\ LET productStock == ViewStock(c, req[s].productId)
              newStock == LegacyNewStock(req[s].type[1], productStock, req[s].quantity[1])
          IN IF LegacyInsufficientStock(req[s].type[1], newStock)
               THEN req' = [req EXCEPT ![s] =
                              Failing([@ EXCEPT !.productStock = productStock],
                                      400, "VALIDATION_ERROR")]
               ELSE req' = [req EXCEPT ![s] = [@ EXCEPT !.pc = "stockUpdate",
                                                 !.productStock = productStock,
                                                 !.newStock = newStock]]
  /\ UNCHANGED <<stock, price, rows, nextId, pre, last, nreq, faulty, rules, preview, conn>>

\* emit calls the listeners synchronously, so a listener that throws throws out of
\* emit (line 119): TRUE is a throwing listener, possible where an event is emitted
LegacyHandlerThrows(productId, newStock) ==
  IF LegacyLowStock(newStock, LowStockThreshold[productId]) THEN Failures ELSE {FALSE}

\* updateStock, lines 111-126 and the catch (135-138): UPDATE products SET stock, then
\* the lowStock emit; what a listener throws is caught and rethrown as internal
LegacyStockUpdate(s) ==
  /\ req[s].impl = "legacy" /\ req[s].pc = "stockUpdate"
  /\ \E c \in Clients, fail \in Failures,
        throws \in LegacyHandlerThrows(req[s].productId, req[s].newStock) :
       /\ PickClient(s, c)
       /\ lastClient' = c
       /\ ~LockedStock(c, req[s].productId)
       /\ IF fail
            THEN /\ conn' = Discard(c)
                 /\ req' = [req EXCEPT ![s] = [Failing(@, 500, "INTERNAL_ERROR")
                                                 EXCEPT !.storeErr = TRUE]]
                 /\ UNCHANGED stock
            ELSE /\ IF conn[c].state = "intxn"
                      THEN /\ conn' = [conn EXCEPT ![c].wstock[req[s].productId] = <<req[s].newStock>>]
                           /\ UNCHANGED stock
                      ELSE /\ stock' = [stock EXCEPT ![req[s].productId] = req[s].newStock]
                           /\ UNCHANGED conn
                 /\ LET r == [req[s] EXCEPT !.wroteStock = TRUE,
                                   !.emitted = LegacyEmit(@, req[s].productId, req[s].newStock)]
                    IN IF throws
                         THEN req' = [req EXCEPT ![s] =
                                        [Failing(r, 500, "INTERNAL_ERROR")
                                           EXCEPT !.handlerThrew = TRUE]]
                         ELSE req' = [req EXCEPT ![s] = [r EXCEPT !.pc = "stockReselect"]]
  /\ UNCHANGED <<price, rows, nextId, pre, last, nreq, faulty, rules, preview>>

\* updateStock, lines 128-138: SELECT the updated product; a failure of the statement
\* is caught and rethrown as internal
LegacyStockReselect(s) ==
  /\ req[s].impl = "legacy" /\ req[s].pc = "stockReselect"
  /\ \E c \in Clients, fail \in Failures :
       /\ PickClient(s, c)
       /\ lastClient' = c
       /\ IF fail
            THEN /\ conn' = Discard(c)
                 /\ req' = [req EXCEPT ![s] = [Failing(@, 500, "INTERNAL_ERROR")
                                                 EXCEPT !.storeErr = TRUE]]
            ELSE /\ req' = [req EXCEPT ![s].pc = "commit"]
                 /\ UNCHANGED conn
  /\ UNCHANGED <<stock, price, rows, nextId, pre, last, nreq, faulty, rules, preview>>

\* what COMMIT does on client c: the open transaction's writes become the store's
CommitStock(c) ==
  [p \in ProductIds |-> IF conn[c].state = "intxn" THEN ViewStock(c, p) ELSE stock[p]]
CommitRows(c) == IF conn[c].state = "intxn" THEN ViewRows(c) ELSE rows

\* lines 203-207: COMMIT, then the created row is returned
LegacyCommit(s) ==
  /\ req[s].impl = "legacy" /\ req[s].pc = "commit"
  /\ \E c \in Clients :
       /\ PickClient(s, c)
       /\ lastClient' = c
       /\ stock' = CommitStock(c)
       /\ rows' = CommitRows(c)
       /\ conn' = [conn EXCEPT ![c] = IdleConn]
       /\ req' = [req EXCEPT ![s] = Done(@, 201, "")]
  /\ UNCHANGED <<price, nextId, pre, last, nreq, faulty, rules, preview>>

\* lines 208-215: ROLLBACK, then the error goes to the caller
LegacyRollback(s) ==
  /\ req[s].impl = "legacy" /\ req[s].pc = "rollback"
  /\ \E c \in Clients :
       /\ PickClient(s, c)
       /\ lastClient' = c
       /\ conn' = [conn EXCEPT ![c] = IdleConn]
       /\ req' = [req EXCEPT ![s].pc = "done"]
  /\ UNCHANGED <<stock, price, rows, nextId, pre, last, nreq, faulty, rules, preview>>

\* ------------------------------------------------------------- specification
\* the store as seeded: one product whose stock varies, one stored transaction of it,
\* priced before the product's price last changed
SeedRows ==
  {[id |-> 1, transactionId |-> "T0", productId |-> "P1", quantity |-> 1, type |-> "sale",
    unitPrice |-> 900, discountRate |-> 1000, totalAmount |-> 810],
   [id |-> 1, transactionId |-> "T0", productId |-> "P1", quantity |-> 1, type |-> "purchase",
    unitPrice |-> 900, discountRate |-> 0, totalAmount |-> 900]}

NoPreview == [quantity |-> 0, customerCategory |-> "", discountRate |-> 0, status |-> 0]

InitWith(stocks, faults, tables) ==
  /\ stock \in stocks
  /\ price = InitialPrice
  /\ rows \in {{r} : r \in SeedRows}
  /\ nextId = 2
  /\ req = [s \in Slots |-> IdleReq]
  /\ pre = Store
  /\ last = NoLast
  /\ nreq = 0
  /\ faulty = faults
  /\ conn = [c \in Clients |-> IdleConn]
  /\ lastClient = 1
  /\ rules \in tables
  /\ preview = NoPreview

Init == InitWith({[P1 |-> n, P2 |-> 1] : n \in 0..MaxStock}, TRUE, {discountRules})

Next ==
  \/ \E body \in PostBodies : PostBegin(1, body, TRUE, MaxRequests)
  \/ \E s \in Slots : PostInsert(s)
  \/ \E s \in Slots : PostUpdate(s)
  \/ \E id \in TransactionRowIds, body \in PutBodies : PutBegin(1, id, body, TRUE, MaxRequests)
  \/ \E s \in Slots : PutUpdateRow(s)
  \/ \E s \in Slots : PutUpdateStock(s)
  \/ \E id \in TransactionRowIds : DeleteBegin(1, id, TRUE, MaxRequests)
  \/ \E s \in Slots : DeleteRow(s)
  \/ \E s \in Slots : DeleteUpdateStock(s)
  \/ \E newPrice \in Prices : ProductPriceUpdate(1, "P1", newPrice, TRUE, MaxRequests)
  \/ \E body \in LegacyBodies : LegacyBegin(1, body, TRUE, MaxRequests)
  \/ \E s \in Slots : LegacyTxBegin(s)
  \/ \E s \in Slots : LegacyInsert(s)
  \/ \E s \in Slots : LegacyStockSelect(s)
  \/ \E s \in Slots : LegacyStockUpdate(s)
  \/ \E s \in Slots : LegacyStockReselect(s)
  \/ \E s \in Slots : LegacyCommit(s)
  \/ \E s \in Slots : LegacyRollback(s)

Spec == Init /\ [][Next]_vars

\* ------------------------------------------------------------- GET /api/discount-preview
\* rows the discount_rules table can hold: percent is DECIMAL(5,2) with no CHECK, so a
\* percent above 100 or below 0 can be stored; is_active may be false
Rule(type, threshold, percent, categoryTarget, isActive) ==
  [type |-> type, threshold |-> threshold, percent |-> percent,
   categoryTarget |-> categoryTarget, isActive |-> isActive]

RuleUniverse ==
  {Rule("quantity", 10, 500, "", TRUE),
   Rule("quantity", 10, 2000, "", FALSE),
   Rule("quantity", 1, 15000, "", TRUE),
   Rule("customer_category", 1, 1500, "vip", TRUE),
   Rule("customer_category", 1, 1000, "premium", TRUE),
   Rule("customer_category", 1, 0 - 500, "vip", TRUE)}

RuleTables == UNION {[1..n -> RuleUniverse] : n \in 0..MaxRules}

PreviewQuantities == {<<>>, <<0>>, <<9>>, <<10>>, <<12>>}
PreviewCategories == {<<>>, <<"vip">>, <<"premium">>}

\* lines 973-997: quantity = parseInt(...) || 0, category = ... || 'regular'
DiscountPreview(q, c) ==
  /\ \E fail \in Failures :
       LET quantity == IF q = <<>> THEN 0 ELSE q[1]
           customerCategory == IF c = <<>> THEN "regular" ELSE c[1]
       IN preview' = IF fail
                       THEN [NoPreview EXCEPT !.status = 500]
                       ELSE [quantity |-> quantity, customerCategory |-> customerCategory,
                             discountRate |-> calculateDiscount(quantity, customerCategory),
                             status |-> 200]
  /\ UNCHANGED <<stock, price, rows, nextId, req, pre, last, nreq, faulty, conn, lastClient,
                 rules>>

NextDiscount ==
  \E q \in PreviewQuantities, c \in PreviewCategories : DiscountPreview(q, c)

InitDiscount == InitWith({[P1 |-> MaxStock, P2 |-> 1]}, FALSE, RuleTables)

SpecDiscount == InitDiscount /\ [][NextDiscount]_vars

\* one request more than in Spec, of creates and deletes of the primary server alone
DeepPostBodies ==
  {PostBody(tid, "P1", <<q>>, <<t>>, <<>>) :
     tid \in ConcurrentTransactionIds, q \in {0 - 1} \cup 1..MaxQty, t \in {"purchase", "sale"}}

NextDeep ==
  \/ \E body \in DeepPostBodies : PostBegin(1, body, TRUE, MaxRequests + 1)
  \/ PostInsert(1)
  \/ PostUpdate(1)
  \/ \E id \in TransactionRowIds : DeleteBegin(1, id, TRUE, MaxRequests + 1)
  \/ DeleteRow(1)
  \/ DeleteUpdateStock(1)

SpecDeep == Init /\ [][NextDeep]_vars

\* the primary server's creates, updates and deletes, one at a time: quantities above
\* 0, types purchase and sale, update bodies of a quantity and a type at most
LedgerPutBodies ==
  {PutBody(q, t, <<>>) :
     q \in {<<>>} \cup {<<n>> : n \in 1..MaxQty},
     t \in {<<>>, <<"purchase">>, <<"sale">>}}

NextLedger ==
  \/ \E body \in WellFormedPostBodies : PostBegin(1, body, TRUE, MaxRequests + 1)
  \/ PostInsert(1)
  \/ PostUpdate(1)
  \/ \E id \in TransactionRowIds, body \in LedgerPutBodies :
       PutBegin(1, id, body, TRUE, MaxRequests + 1)
  \/ PutUpdateRow(1)
  \/ PutUpdateStock(1)
  \/ \E id \in TransactionRowIds : DeleteBegin(1, id, TRUE, MaxRequests + 1)
  \/ DeleteRow(1)
  \/ DeleteUpdateStock(1)

SpecLedger == Init /\ [][NextLedger]_vars

\* requests that overlap: every await of a handler is a point where another runs
ConcurrentPostBodies ==
  {PostBody(tid, "P1", <<q>>, <<t>>, <<>>) :
     tid \in ConcurrentTransactionIds, q \in 1..MaxQty, t \in {"purchase", "sale"}}

ConcurrentPutBodies ==
  {PutBody(<<MaxQty>>, <<>>, <<>>), PutBody(<<>>, <<"sale">>, <<>>),
   PutBody(<<>>, <<"purchase">>, <<>>)}

ConcurrentLegacyBodies ==
  {LegacyBody(tid, "P1", <<q>>, <<t>>, <<>>) :
     tid \in ConcurrentTransactionIds, q \in 1..MaxQty, t \in {"purchase", "sale"}}

NextConcurrent ==
  \E s \in Slots :
    \/ \E body \in ConcurrentPostBodies : PostBegin(s, body, FALSE, MaxRequests)
    \/ PostInsert(s)
    \/ PostUpdate(s)
    \/ \E id \in TransactionRowIds, body \in ConcurrentPutBodies :
          PutBegin(s, id, body, FALSE, MaxRequests)
    \/ PutUpdateRow(s)
    \/ PutUpdateStock(s)
    \/ \E id \in TransactionRowIds : DeleteBegin(s, id, FALSE, MaxRequests)
    \/ DeleteRow(s)
    \/ DeleteUpdateStock(s)
    \/ \E body \in ConcurrentLegacyBodies : LegacyBegin(s, body, FALSE, MaxRequests)
    \/ LegacyTxBegin(s)
    \/ LegacyInsert(s)
    \/ LegacyStockSelect(s)
    \/ LegacyStockUpdate(s)
    \/ LegacyStockReselect(s)
    \/ LegacyCommit(s)
    \/ LegacyRollback(s)

InitConcurrent == InitWith({[P1 |-> MaxStock, P2 |-> 1]}, FALSE, {discountRules})

SpecConcurrent == InitConcurrent /\ [][NextConcurrent]_vars

\* ------------------------------------------------------------- claims, one request at a time
Ended(s) == req[s].pc = "done"
IsCreate(s) == req[s].op \in {"post", "create"}
KnownProduct(s) == req[s].productId \in ProductIds
FreshId(s) == \A x \in pre.rows : x.transactionId # req[s].transactionId
PreRow(id) == CHOOSE x \in pre.rows : x.id = id

\* C1: after any sequence of POST, PUT and DELETE requests no stored stock is negative
C1_StockNeverNegative == \A p \in ProductIds : stock[p] >= 0

\* C2: when a POST of a purchase or sale of a positive quantity has ended, either the
\* row was inserted and the stock was adjusted by the row's delta, or neither happened
C2_PostAtomic ==
  \A s \in Slots :
    (/\ Ended(s) /\ req[s].impl = "primary" /\ req[s].op = "post"
     /\ KnownProduct(s) /\ req[s].quantity # <<>> /\ req[s].type # <<>>
     /\ req[s].quantity[1] > 0 /\ req[s].type[1] \in {"purchase", "sale"})
    => LET inserted == \E x \in rows \ pre.rows : x.transactionId = req[s].transactionId
           delta == IF req[s].type[1] = "purchase" THEN req[s].quantity[1]
                    ELSE 0 - req[s].quantity[1]
       IN IF inserted
            THEN stock = [pre.stock EXCEPT ![req[s].productId] = @ + delta]
            ELSE stock = pre.stock

\* C5: a create that succeeded left the product's stock at stock - q for a sale of
\* 0 < q <= stock and at stock + q for a purchase of q > 0, and no other stock changed
C5_CreateAdjustsStock ==
  \A s \in Slots :
    (/\ Ended(s) /\ IsCreate(s) /\ req[s].status = 201
     /\ req[s].quantity # <<>> /\ req[s].quantity[1] > 0)
    => LET p == req[s].productId
           q == req[s].quantity[1]
       IN /\ (req[s].type = <<"sale">> /\ q <= pre.stock[p])
               => stock = [pre.stock EXCEPT ![p] = @ - q]
          /\ req[s].type = <<"purchase">>
               => stock = [pre.stock EXCEPT ![p] = @ + q]

C5_Witness ==
  \E s \in Slots :
    /\ Ended(s) /\ req[s].impl = "legacy" /\ req[s].status = 201
    /\ req[s].type = <<"sale">> /\ req[s].quantity[1] = pre.stock[req[s].productId]
    /\ req[s].productId = "P2" /\ stock # pre.stock

\* C6: a delete that directly follows the accepted create of the same transaction (a
\* purchase or sale of a positive quantity) succeeds, and the stock is what it was
\* before the create
C6_CreateThenDeleteRestores ==
  \A s \in Slots :
    (/\ Ended(s) /\ req[s].impl = "primary" /\ req[s].op = "delete" /\ ~req[s].storeErr
     /\ last.op = "post" /\ last.id = req[s].id
     /\ last.type \in {"purchase", "sale"} /\ last.quantity > 0)
    => /\ req[s].status = 200
       /\ stock = last.stockBefore

\* C7: a create of a sale of more than the product's stock (known product, new
\* transaction id, no store failure) ends with 400 and the store as it was
C7_InsufficientSaleRejected ==
  \A s \in Slots :
    (/\ Ended(s) /\ IsCreate(s) /\ KnownProduct(s) /\ FreshId(s) /\ ~req[s].storeErr
     /\ req[s].type = <<"sale">> /\ req[s].quantity # <<>>
     /\ req[s].quantity[1] > pre.stock[req[s].productId])
    => /\ req[s].status = 400
       /\ req[s].code = IF req[s].impl = "primary" THEN "INSUFFICIENT_STOCK"
                        ELSE "VALIDATION_ERROR"
       /\ Store = pre

C7_Witness ==
  \E s \in Slots :
    /\ Ended(s) /\ req[s].impl = "legacy" /\ req[s].op = "create" /\ FreshId(s)
    /\ KnownProduct(s) /\ req[s].quantity # <<>>
    /\ req[s].type = <<"sale">> /\ req[s].quantity[1] > pre.stock[req[s].productId]
    /\ req[s].newRow.id # 0 /\ req[s].status = 400 /\ pre.rows # {}

\* C8: a create (valid body, known product) whose transactionId is already in the
\* table ends with 409 and the store as it was
C8_DuplicateIsConflict ==
  \A s \in Slots :
    (/\ Ended(s) /\ IsCreate(s) /\ KnownProduct(s) /\ ~FreshId(s)
     /\ req[s].quantity # <<>> /\ req[s].type # <<>>
     /\ req[s].quantity[1] > 0 /\ req[s].type[1] \in {"purchase", "sale"})
    => /\ req[s].status = 409
       /\ Store = pre

\* C9: an update of a stored purchase or sale, with a body whose quantity is absent or
\* not 0 and whose type is absent, purchase or sale: final = stock + reversal +
\* forward; final < 0 ends with 400 INSUFFICIENT_STOCK and the store as it was; a 200
\* leaves the stock at final; and final >= 0 is accepted whatever the reversed stock is
C9_ValidPut(s) ==
  /\ req[s].impl = "primary" /\ req[s].op = "put"
  /\ \E x \in pre.rows : x.id = req[s].id /\ x.type \in {"purchase", "sale"}
  /\ req[s].quantity = <<>> \/ req[s].quantity[1] # 0
  /\ req[s].type = <<>> \/ req[s].type[1] \in {"purchase", "sale"}

C9_NewQuantity(s) ==
  IF req[s].quantity = <<>> THEN PreRow(req[s].id).quantity ELSE req[s].quantity[1]
C9_NewType(s) ==
  IF req[s].type = <<>> THEN PreRow(req[s].id).type ELSE req[s].type[1]
C9_Reversed(s) ==
  pre.stock[PreRow(req[s].id).productId]
    + (IF PreRow(req[s].id).type = "purchase" THEN 0 - PreRow(req[s].id).quantity
       ELSE PreRow(req[s].id).quantity)
C9_Final(s) ==
  C9_Reversed(s)
    + (IF C9_NewType(s) = "purchase" THEN C9_NewQuantity(s) ELSE 0 - C9_NewQuantity(s))

C11_DeleteRefusedOnlyBelowPurchase ==
  \A s \in Slots :
    (/\ Ended(s) /\ req[s].impl = "primary" /\ req[s].op = "delete" /\ ~req[s].storeErr
     /\ \E x \in pre.rows : x.id = req[s].id /\ x.type \in {"purchase", "sale"})
    => LET x == PreRow(req[s].id)
           p == x.productId
           reversal == IF x.type = "purchase" THEN 0 - x.quantity ELSE x.quantity
       IN IF x.type = "purchase" /\ pre.stock[p] < x.quantity
            THEN /\ req[s].status = 400 /\ req[s].code = "INSUFFICIENT_STOCK"
                 /\ Store = pre
            ELSE /\ req[s].status = 200
                 /\ rows = pre.rows \ {x}
                 /\ stock = [pre.stock EXCEPT ![p] = @ + reversal]

\* C12: when an update or a delete of the primary server has ended and the stored row
\* is changed or gone, the product's stock is the final stock of that request: the
\* row write is never left persisted without the stock write
C12_StoredPurchaseOrSale(s) ==
  \E x \in pre.rows : x.id = req[s].id /\ x.type \in {"purchase", "sale"}

C12_FinalStock(s) ==
  IF req[s].op = "put" THEN C9_Final(s)
  ELSE pre.stock[PreRow(req[s].id).productId]
         + (IF PreRow(req[s].id).type = "purchase" THEN 0 - PreRow(req[s].id).quantity
            ELSE PreRow(req[s].id).quantity)

C12_PutDeleteAtomic ==
  \A s \in Slots :
    (/\ Ended(s) /\ req[s].impl = "primary"
     /\ C9_ValidPut(s) \/ (req[s].op = "delete" /\ C12_StoredPurchaseOrSale(s))
     /\ rows # pre.rows)
    => stock = [pre.stock EXCEPT ![PreRow(req[s].id).productId] = C12_FinalStock(s)]

\* C15: the discount rate a POST computes, and stores when it answers 201, is
\* calculateDiscount(quantity, customer.category) when the type is sale and the body
\* names a customer that exists, and 0 in every other case
C15_Parsed(s) ==
  /\ Ended(s) /\ req[s].impl = "primary" /\ req[s].op = "post"
  /\ KnownProduct(s) /\ req[s].quantity # <<>> /\ req[s].type # <<>>

C15_Rate(s) ==
  IF /\ req[s].type[1] = "sale" /\ req[s].customerId # <<>>
     /\ req[s].customerId[1] \in CustomerIds
    THEN calculateDiscount(req[s].quantity[1], CustomerCategory[req[s].customerId[1]])
    ELSE 0

C15_DiscountOnlyWithCustomer ==
  \A s \in Slots :
    C15_Parsed(s)
    => /\ req[s].newRow.discountRate = C15_Rate(s)
       /\ req[s].status = 201
            => \E x \in rows : /\ x.transactionId = req[s].transactionId
                                /\ x.discountRate = C15_Rate(s)

C15_Witness ==
  \E s \in Slots :
    /\ C15_Parsed(s) /\ req[s].status = 201
    /\ req[s].type[1] = "sale" /\ req[s].customerId = <<>>
    /\ \E i \in DOMAIN rules : /\ rules[i].isActive /\ rules[i].type = "quantity"
                                /\ req[s].quantity[1] >= rules[i].threshold
    /\ \E x \in rows : x.transactionId = req[s].transactionId /\ x.discountRate = 0

\* C16: the row a successful create wrote has unitPrice = the product's price at the
\* time of the create and totalAmount = unitPrice * quantity - (unitPrice * quantity)
\* * discountRate, as the two-decimal column holds it (within half a cent)
C16_Abs(x) == IF x >= 0 THEN x ELSE 0 - x

C16_CreateAmounts ==
  \A s \in Slots :
    (Ended(s) /\ IsCreate(s) /\ req[s].status = 201)
    => \E x \in rows :
         /\ x.transactionId = req[s].transactionId
         /\ x \notin pre.rows
         /\ x.quantity = req[s].quantity[1]
         /\ x.unitPrice = price[req[s].productId]
         /\ LET baseAmount == x.unitPrice * x.quantity
            IN 2 * C16_Abs(10000 * x.totalAmount - baseAmount * (10000 - x.discountRate))
                 <= 10000

C16_Witness ==
  \E s \in Slots :
    /\ Ended(s) /\ req[s].impl = "primary" /\ req[s].op = "post" /\ req[s].status = 201
    /\ req[s].quantity = <<1>>
    /\ \E x \in rows \ pre.rows :
         /\ x.discountRate = 1500 /\ x.unitPrice = 995 /\ x.totalAmount = 846

\* C17: a price change of a product leaves the unitPrice and totalAmount of every
\* stored transaction as they were; a stored row's unitPrice or totalAmount differs
\* from what it was when the request arrived only after an update of that transaction
C17_PriceSnapshots ==
  \A s \in Slots :
    Ended(s)
    => /\ req[s].op = "putProduct" => (rows = pre.rows /\ stock = pre.stock)
       /\ \A x \in pre.rows, y \in rows :
            (x.id = y.id /\ (x.unitPrice # y.unitPrice \/ x.totalAmount # y.totalAmount))
            => (req[s].op = "put" /\ req[s].id = x.id)

C17_Witness ==
  \E s \in Slots :
    /\ Ended(s) /\ req[s].op = "putProduct" /\ req[s].status = 200
    /\ \E x \in rows : /\ x.productId = req[s].productId
                        /\ x.unitPrice # price[x.productId]
                        /\ x.unitPrice # req[s].unitPrice
                        /\ x.transactionId = "T1"

\* C18: a create whose body lacks the quantity or the type, has a quantity <= 0, or has
\* a type other than purchase and sale ends with status 400 and the store as it was
C18_Invalid(s) ==
  \/ req[s].quantity = <<>>
  \/ req[s].type = <<>>
  \/ req[s].quantity[1] <= 0
  \/ req[s].type[1] \notin {"purchase", "sale"}

C18_InvalidCreateRejected ==
  \A s \in Slots :
    (Ended(s) /\ IsCreate(s) /\ C18_Invalid(s))
    => (req[s].status = 400 /\ Store = pre)

\* C19: a create (valid body, new transaction id) that names a product the store does
\* not have ends with 404, and the transaction table and every stock are as they were
C19_UnknownProductNotFound ==
  \A s \in Slots :
    (/\ Ended(s) /\ IsCreate(s) /\ ~KnownProduct(s) /\ ~C18_Invalid(s) /\ FreshId(s)
     /\ ~req[s].storeErr)
    => /\ req[s].status = 404
       /\ req[s].code = IF req[s].impl = "primary" THEN "PRODUCT_NOT_FOUND" ELSE "NOT_FOUND"
       /\ Store = pre

C19_Witness ==
  \E s \in Slots :
    /\ Ended(s) /\ req[s].impl = "legacy" /\ req[s].op = "create"
    /\ req[s].productId = UnknownProduct /\ FreshId(s) /\ req[s].status = 404
    /\ req[s].quantity = <<MaxQty>> /\ nreq = MaxRequests

\* C20: a legacy call whose stock UPDATE has run has emitted exactly one lowStock event
\* if the new stock (the stock at the call's start plus the quantity of a purchase,
\* minus that of a sale) is at or below the product's threshold, carrying the product
\* id, its name, the new stock and the threshold, and none if the new stock is above
\* it; a call whose UPDATE has not run or was refused has emitted none
C20_NewStock(s) ==
  IF req[s].type = <<"purchase">> THEN pre.stock[req[s].productId] + req[s].quantity[1]
  ELSE pre.stock[req[s].productId] - req[s].quantity[1]

C20_LowStockEvent ==
  \A s \in Slots :
    req[s].impl = "legacy"
    => IF req[s].wroteStock
         THEN LET p == req[s].productId
              IN IF C20_NewStock(s) <= LowStockThreshold[p]
                   THEN req[s].emitted =
                          << [productId |-> p, name |-> ProductName[p],
                              currentStock |-> C20_NewStock(s),
                              threshold |-> LowStockThreshold[p]] >>
                   ELSE req[s].emitted = <<>>
         ELSE req[s].emitted = <<>>

C20_Witness ==
  \E s \in Slots :
    /\ Ended(s) /\ req[s].impl = "legacy" /\ req[s].status = 201
    /\ req[s].type = <<"sale">> /\ req[s].productId = "P1"
    /\ Len(req[s].emitted) = 1
    /\ req[s].emitted[1].currentStock = LowStockThreshold["P1"]
    /\ stock["P1"] = LowStockThreshold["P1"]

\* C21: a legacy create whose lowStock listener threw (no store failure) still ends
\* with 201, and its row and its stock write are in the store
C21_HandlerFailureSwallowed ==
  \A s \in Slots :
    (Ended(s) /\ req[s].impl = "legacy" /\ req[s].handlerThrew /\ ~req[s].storeErr)
    => /\ req[s].status = 201
       /\ \E x \in rows : x.transactionId = req[s].transactionId /\ x \notin pre.rows
       /\ stock = [pre.stock EXCEPT ![req[s].productId] = req[s].newStock]

\* C22: a transaction operation that failed reports the status of its error class: 500
\* when a statement failed in the store or a listener threw, and 400, 404 or 409 (validation or insufficient
\* stock, not found, conflict) otherwise
C22_StatusOfErrorClass ==
  \A s \in Slots :
    (Ended(s) /\ req[s].op \in {"post", "create", "put", "delete"}
     /\ req[s].status \notin {200, 201})
    => IF req[s].storeErr \/ req[s].handlerThrew THEN req[s].status = 500
       ELSE /\ req[s].status \in {400, 404, 409}
            /\ req[s].code \in {"NOT_FOUND", "PRODUCT_NOT_FOUND", "TRANSACTION_NOT_FOUND"}
                 <=> req[s].status = 404
            /\ req[s].code = "CONFLICT" <=> req[s].status = 409

\* C23: an update or a delete of an id that is not stored (deleted before, or never
\* used) ends with 404 TRANSACTION_NOT_FOUND and the store as it was, so that a
\* deleted transaction's reversal is applied once
C23_DeletionTerminal ==
  \A s \in Slots :
    (/\ Ended(s) /\ req[s].impl = "primary" /\ req[s].op \in {"put", "delete"}
     /\ \A x \in pre.rows : x.id # req[s].id)
    => /\ req[s].status = 404 /\ req[s].code = "TRANSACTION_NOT_FOUND"
       /\ Store = pre

C23_Witness ==
  \E s \in Slots :
    /\ Ended(s) /\ req[s].op = "delete" /\ req[s].status = 404
    /\ last.op = "delete" /\ last.id = req[s].id
    /\ stock # last.stockBefore

\* C24: a create with a valid body whose transactionId is already stored and whose
\* product is unknown, or which is a sale of more than the stock, ends with 409
\* CONFLICT (the duplicate check comes before the product lookup and the stock check)
C24_ConflictBeforeLookupAndStock ==
  \A s \in Slots :
    (/\ Ended(s) /\ IsCreate(s) /\ ~C18_Invalid(s) /\ ~FreshId(s)
     /\ \/ ~KnownProduct(s)
        \/ /\ KnownProduct(s) /\ req[s].type = <<"sale">>
           /\ req[s].quantity[1] > pre.stock[req[s].productId])
    => /\ req[s].status = 409 /\ req[s].code = "CONFLICT"
       /\ Store = pre

\* C25: in the primary server, with requests one at a time, each product's stock is
\* its initial stock plus the quantities of its stored purchases minus those of its
\* stored sales: stock - purchases + sales is after every request what it was before
RECURSIVE C25_Net(_, _)
C25_Net(table, p) ==
  IF table = {} THEN 0
  ELSE LET x == CHOOSE y \in table : TRUE
           d == IF x.productId # p THEN 0
                ELSE IF x.type = "purchase" THEN x.quantity ELSE 0 - x.quantity
       IN d + C25_Net(table \ {x}, p)

C25_LedgerConserved ==
  \A s \in Slots :
    Ended(s)
    => \A p \in ProductIds :
         stock[p] - C25_Net(rows, p) = pre.stock[p] - C25_Net(pre.rows, p)

\* C27: the row that a successful primary create or update (of a stored purchase or
\* sale, body quantity absent or not 0) wrote has totalAmount = unitPrice * quantity *
\* (1 - discountRate / 100) to the cent, discountRate being the percent on the row
C27_DiscountedTotal ==
  \A s \in Slots :
    (/\ Ended(s) /\ req[s].impl = "primary"
     /\ \/ req[s].op = "post" /\ req[s].status = 201
        \/ C9_ValidPut(s) /\ req[s].status = 200)
    => \A x \in rows :
         x.id = (IF req[s].op = "post" THEN req[s].newRow.id ELSE req[s].id)
         => 2 * C16_Abs(10000 * x.totalAmount
                          - x.unitPrice * x.quantity * (10000 - x.discountRate))
              <= 10000

\* C28: after a successful update of a stored purchase or sale the row's quantity and
\* type are those the forward stock delta was computed from, whatever the body
\* (quantity absent, quantity 0)
C28_RowMatchesForwardDelta ==
  \A s \in Slots :
    (/\ Ended(s) /\ req[s].impl = "primary" /\ req[s].op = "put" /\ req[s].status = 200
     /\ \E x \in pre.rows : x.id = req[s].id /\ x.type \in {"purchase", "sale"}
     /\ req[s].type = <<>> \/ req[s].type[1] \in {"purchase", "sale"})
    => \E x \in rows :
         /\ x.id = req[s].id
         /\ x.quantity = PutNewQuantity(req[s].quantity, PreRow(req[s].id).quantity)
         /\ x.type = PutNewType(req[s].type, PreRow(req[s].id).type)

\* C29: every lowStock event that a legacy create has emitted (its listener did not
\* throw) reports a stock that the create committed: the create ended with 201 and
\* the product's stock is the event's currentStock
C29_EventsAreCommitted ==
  \A s \in Slots :
    (Ended(s) /\ req[s].impl = "legacy" /\ ~req[s].handlerThrew)
    => \A i \in 1..Len(req[s].emitted) :
         /\ req[s].status = 201
         /\ stock[req[s].emitted[i].productId] = req[s].emitted[i].currentStock

\* ------------------------------------------------------------- claims, the discount evaluator
\* C13: over a table whose percents are not negative, the rate a preview answers is
\* the largest percent among the active rules that match (a quantity rule when
\* quantity >= threshold, a customer_category rule when categoryTarget = category),
\* 0 when none matches or the table is empty: a function of the set of rules, so the
\* same in whatever order the rows are read
C13_Matching ==
  {r \in {rules[i] : i \in DOMAIN rules} :
     /\ r.isActive
     /\ \/ r.type = "quantity" /\ preview.quantity >= r.threshold
        \/ r.type = "customer_category" /\ r.categoryTarget = preview.customerCategory}

C14_RateInUnitInterval ==
  preview.status = 200 => (preview.discountRate >= 0 /\ preview.discountRate <= 10000)

\* ------------------------------------------------------------- claims, overlapping requests
\* C30: two overlapping creates that carry the same new transactionId, the only
\* requests so far, both ended: at most one row with that id is stored, and the stock
\* is the initial stock changed by that row's quantity, or unchanged if there is none
C30_SameId ==
  /\ nreq = 2
  /\ \A s \in Slots : Ended(s) /\ IsCreate(s) /\ FreshId(s)
  /\ req[1].transactionId = req[2].transactionId

C30_OneWinner ==
  C30_SameId
  => LET won == {x \in rows : x.transactionId = req[1].transactionId}
     IN /\ Cardinality(won) <= 1
        /\ \A p \in ProductIds :
             stock[p] = pre.stock[p] + C25_Net(won, p)

\* C26: under every interleaving of overlapping creates, updates and deletes (quantities
\* above 0, types purchase and sale) every stock value the store holds is >= 0, also
\* where one request's stock write has overwritten another's
C26_ConcurrentStockNonNegative ==
  /\ \A p \in ProductIds : stock[p] >= 0
  /\ \A s \in Slots : req[s].wroteStock => req[s].newStock >= 0

C26_Witness ==
  /\ \A s \in Slots :
       /\ Ended(s) /\ req[s].impl = "primary" /\ req[s].op = "post" /\ req[s].status = 201
       /\ req[s].type = <<"sale">> /\ req[s].productId = "P1"
  /\ stock["P1"] # pre.stock["P1"] - req[1].quantity[1] - req[2].quantity[1]
  /\ pre.stock["P1"] - req[1].quantity[1] - req[2].quantity[1] < 0

\* C3: when a legacy createTransaction has returned an error after its INSERT ran, the
\* ROLLBACK has undone the insert: the table has no row of that call
C3_RollbackUndoesInsert ==
  \A s \in Slots :
    (/\ Ended(s) /\ req[s].impl = "legacy" /\ req[s].op = "create"
     /\ req[s].status # 201 /\ req[s].newRow.id # 0)
    => \A x \in rows : x.id # req[s].newRow.id

\* C4: two creates of sales of one product, the only requests so far, both accepted:
\* the stock is the initial stock less both quantities
C4_NoLostUpdate ==
  (/\ nreq = 2
   /\ \A s \in Slots :
        /\ Ended(s) /\ IsCreate(s) /\ req[s].status = 201
        /\ req[s].type = <<"sale">> /\ req[s].productId = "P1")
  => stock["P1"] = pre.stock["P1"] - req[1].quantity[1] - req[2].quantity[1]
====
